---- MODULE Spec2Model ----
(***************************************************************************)
(* Dream Team Analyzer (myapp.py): one Streamlit session.                  *)
(*                                                                         *)
(* The script is re-executed top to bottom after every widget interaction. *)
(* One step of the model is one script run, together with the widget       *)
(* interaction that started it.  st.rerun() ends the run where it is       *)
(* called and queues one more run, which starts before any further         *)
(* interaction is accepted.  The variables hold st.session_state, the      *)
(* widget values the framework keeps between runs, and what the last run   *)
(* rendered and sent.                                                      *)
(*                                                                         *)
(* Framework behaviour assumed: a keyed widget keeps its value while it is *)
(* rendered in every completed run and loses it (back to its default) when *)
(* a completed run does not render it; a button is True only in the run    *)
(* its click starts.                                                       *)
(***************************************************************************)
EXTENDS Integers, Sequences, FiniteSets, TLC

VARIABLES
    team,              \* st.session_state.team: dict in insertion order, <<[pos, name], ...>>
    run_analysis,      \* st.session_state.run_analysis
    view_mode,         \* st.session_state.view_mode
    formation_select,  \* value of the selectbox, key "formation_select"
    input,             \* values of the text inputs, key "input_<slot>"
    pending,           \* the run that must start next: "load", "none", or the button whose st.rerun() queued it
    event,             \* what started the last run
    reached,           \* how far the last run got: "top_rerun", "sidebar_rerun", "aborted", "complete"
    pitch,             \* markers rendered by the last run, in order
    panel,             \* what the right-hand panel of the last run showed
    llm_calls          \* calls of generate_analysis in the last run: <<[prompt, outcome, returned], ...>>

vars == <<team, run_analysis, view_mode, formation_select, input, pending,
          event, reached, pitch, panel, llm_calls>>

----------------------------------------------------------------------------
(* Constants of the program *)

FORMATIONS ==
    "4-3-3" :> << <<"GK", 1>>, <<"DEF", 4>>, <<"MID", 3>>, <<"ATT", 3>> >> @@
    "4-4-2" :> << <<"GK", 1>>, <<"DEF", 4>>, <<"MID", 4>>, <<"ATT", 2>> >> @@
    "3-5-2" :> << <<"GK", 1>>, <<"DEF", 3>>, <<"MID", 5>>, <<"ATT", 2>> >> @@
    "3-4-3" :> << <<"GK", 1>>, <<"DEF", 3>>, <<"MID", 4>>, <<"ATT", 3>> >>

\* list(FORMATIONS.keys()): the options of the selectbox, index 0 first
FormationOptions == << "4-3-3", "4-4-2", "3-5-2", "3-4-3" >>

DEFAULT_IMAGE == "https://cdn-icons-png.flaticon.com/512/3673/3673323.png"

\* str(i) for the indices the formations use
Decimal == << "1", "2", "3", "4", "5" >>

\* f"{position_name}{i + 1}", i counted from 0
position_key(position_name, i) == position_name \o Decimal[i + 1]

\* [f"{pos}{i + 1}" for pos, count in rows for i in range(count)]
RECURSIVE formation_slots(_)
formation_slots(rows) ==
    IF rows = << >> THEN << >>
    ELSE [i \in 1..rows[1][2] |-> position_key(rows[1][1], i - 1)]
         \o formation_slots(Tail(rows))

Range(s) == {s[i] : i \in 1..Len(s)}

AllSlots == UNION {Range(formation_slots(FORMATIONS[f])) : f \in DOMAIN FORMATIONS}

----------------------------------------------------------------------------
(* Python dict, insertion ordered *)

DictKeys(d) == {d[i].pos : i \in 1..Len(d)}

DictGet(d, k, default) ==
    IF k \in DictKeys(d)
    THEN d[CHOOSE i \in 1..Len(d) : d[i].pos = k].name
    ELSE default

DictValues(d) == [i \in 1..Len(d) |-> d[i].name]

----------------------------------------------------------------------------
(* get_player_positions *)

\* positions.update(more)
DictUpdate(positions, more) == more @@ positions

NoPositions == [k \in {} |-> [top |-> 0, left |-> 0]]

\* lines 149-162
defensive_line(formation_name) ==
    IF formation_name \in {"4-3-3", "4-4-2"} THEN
        "DEF1" :> [top |-> 30, left |-> 15] @@
        "DEF2" :> [top |-> 30, left |-> 35] @@
        "DEF3" :> [top |-> 30, left |-> 65] @@
        "DEF4" :> [top |-> 30, left |-> 85]
    ELSE IF formation_name \in {"3-5-2", "3-4-3"} THEN
        "DEF1" :> [top |-> 30, left |-> 25] @@
        "DEF2" :> [top |-> 30, left |-> 50] @@
        "DEF3" :> [top |-> 30, left |-> 75]
    ELSE NoPositions

\* lines 164-192
midfield_line(formation_name) ==
    IF formation_name = "4-3-3" THEN
        "MID1" :> [top |-> 50, left |-> 25] @@
        "MID2" :> [top |-> 50, left |-> 50] @@
        "MID3" :> [top |-> 50, left |-> 75]
    ELSE IF formation_name = "4-4-2" THEN
        "MID1" :> [top |-> 50, left |-> 10] @@
        "MID2" :> [top |-> 50, left |-> 40] @@
        "MID3" :> [top |-> 50, left |-> 60] @@
        "MID4" :> [top |-> 50, left |-> 90]
    ELSE IF formation_name = "3-5-2" THEN
        "MID1" :> [top |-> 50, left |-> 10] @@
        "MID2" :> [top |-> 50, left |-> 30] @@
        "MID3" :> [top |-> 50, left |-> 50] @@
        "MID4" :> [top |-> 50, left |-> 70] @@
        "MID5" :> [top |-> 50, left |-> 90]
    ELSE IF formation_name = "3-4-3" THEN
        "MID1" :> [top |-> 50, left |-> 20] @@
        "MID2" :> [top |-> 50, left |-> 40] @@
        "MID3" :> [top |-> 50, left |-> 60] @@
        "MID4" :> [top |-> 50, left |-> 80]
    ELSE NoPositions

\* a faulty variant of attacking_line: "3-4-3" listed with the two-striker formations
attacking_line_343_as_pair(formation_name) ==
    IF formation_name \in {"4-3-3"} THEN
        "ATT1" :> [top |-> 75, left |-> 20] @@
        "ATT2" :> [top |-> 75, left |-> 50] @@
        "ATT3" :> [top |-> 75, left |-> 80]
    ELSE IF formation_name \in {"4-4-2", "3-5-2", "3-4-3"} THEN
        "ATT1" :> [top |-> 75, left |-> 40] @@
        "ATT2" :> [top |-> 75, left |-> 60]
    ELSE NoPositions

\* lines 194-205
attacking_line(formation_name) ==
    IF formation_name \in {"4-3-3", "3-4-3"} THEN
        "ATT1" :> [top |-> 75, left |-> 20] @@
        "ATT2" :> [top |-> 75, left |-> 50] @@
        "ATT3" :> [top |-> 75, left |-> 80]
    ELSE IF formation_name \in {"4-4-2", "3-5-2"} THEN
        "ATT1" :> [top |-> 75, left |-> 40] @@
        "ATT2" :> [top |-> 75, left |-> 60]
    ELSE NoPositions

get_player_positions(formation_name) ==
    LET positions == "GK1" :> [top |-> 15, left |-> 50]
    IN  DictUpdate(DictUpdate(DictUpdate(positions,
            defensive_line(formation_name)),
            midfield_line(formation_name)),
            attacking_line(formation_name))

----------------------------------------------------------------------------
(* generate_analysis *)

\* What one chat-completion call can do: return a response whose
\* choices[0].message.content is a string, return a response whose content is
\* null, or raise inside the try block (connection error, timeout, a response
\* without choices).
Payload == "## Strengths"

PyStr(v) == [type |-> "str", value |-> v]
PyNone == [type |-> "NoneType", value |-> ""]

LLMOutcomes ==
    { [raised |-> FALSE, content |-> PyStr(Payload), etype |-> "", msg |-> ""],
      [raised |-> FALSE, content |-> PyNone, etype |-> "", msg |-> ""],
      [raised |-> TRUE, content |-> PyNone, etype |-> "APIConnectionError", msg |-> "Connection error."],
      [raised |-> TRUE, content |-> PyNone, etype |-> "APITimeoutError", msg |-> "Request timed out."],
      [raised |-> TRUE, content |-> PyNone, etype |-> "IndexError", msg |-> "list index out of range"] }

\* [f"{pos}: {name}" for pos, name in team.items()], the lines "\n".join puts together
team_str(t) == [i \in 1..Len(t) |-> t[i].pos \o ": " \o t[i].name]

\* the prompt: the fixed template with the formation and the roster lines filled in
Prompt(formation, t) == [formation |-> formation, roster |-> team_str(t)]

\* the value generate_analysis returns when the call ends as `llm`
generate_analysis(formation, t, llm) ==
    IF llm.raised
    THEN PyStr("ERROR: LLM Analysis failed: " \o llm.etype \o ": " \o llm.msg)
    ELSE llm.content

\* f"{v}"
Format(v) == IF v.type = "NoneType" THEN "None" ELSE v.value

----------------------------------------------------------------------------
(* Portrait lookup *)

LookupOutcomes == {"thumbnail", "no_results", "transport_error"}

Thumbnail(name) == "thumb:" \o name

\* get_player_image_url: called by the pitch loop, defined outside this file
get_player_image_url(name, outcome) ==
    IF name = "" THEN DEFAULT_IMAGE
    ELSE IF outcome = "thumbnail" THEN Thumbnail(name)
    ELSE DEFAULT_IMAGE

----------------------------------------------------------------------------
(* The script, top to bottom *)

\* A call that raises yields this value; the script has no handler around the
\* pitch loop or the analysis panel, so it ends the run.
PyRaise == [type |-> "exception", value |-> ""]

\* a faulty variant of btn_local: the pending analysis is not reset
btn_local_keeps_run_analysis(ss) == [ss EXCEPT !.view_mode = "local_players"]

\* "Local Players" button: lines 336-340
btn_local(ss) == [ss EXCEPT !.view_mode = "local_players", !.run_analysis = FALSE]

\* "Video Analysis" button: lines 343-347
btn_video(ss) == [ss EXCEPT !.view_mode = "analysis"]

\* "Analyze Dream Team" button and its else branch: lines 380-387
analyze_button_sidebar(ss, clicked) ==
    IF clicked
    THEN [ss EXCEPT !.run_analysis = TRUE, !.view_mode = "analysis"]
    ELSE IF ~ss.run_analysis
         THEN [ss EXCEPT !.run_analysis = FALSE]
         ELSE ss

\* a faulty variant of sidebar_inputs: the roster is rebuilt from the selected
\* formation's slots, so the entries of other slots are dropped
sidebar_inputs_rebuilt(t, slots, inp) ==
    [i \in 1..Len(slots) |-> [pos |-> slots[i], name |-> inp[slots[i]]]]

\* the sidebar loop: st.session_state.team[position_key] = player_name for
\* every slot of the selected formation, in order.  A key the dict holds keeps
\* its place and takes the input's value; a new key goes to the end.
sidebar_inputs(t, slots, inp) ==
    LET written == [i \in 1..Len(t) |->
                        IF t[i].pos \in Range(slots)
                        THEN [pos |-> t[i].pos, name |-> inp[t[i].pos]]
                        ELSE t[i]]
        added == SelectSeq(slots, LAMBDA s : s \notin DictKeys(t))
    IN  written \o [i \in 1..Len(added) |-> [pos |-> added[i], name |-> inp[added[i]]]]

\* a faulty variant of marker_image: the lookup is made for every slot, named or not
marker_image_always_looked_up(player_name, lookup) ==
    [url |-> get_player_image_url(player_name,
                 IF player_name \in DOMAIN lookup THEN lookup[player_name] ELSE "no_results"),
     called |-> TRUE]

\* get_player_image_url(player_name) if player_name else DEFAULT_IMAGE: the
\* image, and whether the lookup was called
marker_image(player_name, lookup) ==
    IF player_name # ""
    THEN [url |-> get_player_image_url(player_name, lookup[player_name]), called |-> TRUE]
    ELSE [url |-> DEFAULT_IMAGE, called |-> FALSE]

\* one turn of the pitch loop: the marker of position_key = slot
pitch_marker(slot, t, positions, lookup) ==
    LET player_name == DictGet(t, slot, "")
        display_name == IF player_name # "" THEN player_name ELSE slot
        img == marker_image(player_name, lookup)
        known == slot \in DOMAIN positions
        pos_data == IF known THEN positions[slot] ELSE [top |-> 50, left |-> 50]
    IN  [key |-> slot, top |-> pos_data.top, left |-> pos_data.left,
         img_url |-> img.url, name |-> display_name,
         lookup_called |-> img.called, default_position |-> ~known]

\* the pitch loop over formation_slots
pitch_markers(slots, t, positions, lookup) ==
    [i \in 1..Len(slots) |-> pitch_marker(slots[i], t, positions, lookup)]

\* sum(count for _, count in formation_rows)
RECURSIVE required_count(_)
required_count(rows) ==
    IF rows = << >> THEN 0 ELSE rows[1][2] + required_count(Tail(rows))

\* a faulty variant of filled_count: the entries are counted, empty or not
filled_count_unfiltered(t) == Len(DictValues(t))

\* len([name for name in st.session_state.team.values() if name])
filled_count(t) == Len(SelectSeq(DictValues(t), LAMBDA name : name # ""))

NoPanel == [kind |-> "none", text |-> ""]

\* the right-hand panel: lines 421-443.  Gives what is shown and the calls made.
analysis_col(ss, rows, selected_formation, t, llm) ==
    IF ss.view_mode = "local_players" THEN
        [panel |-> [kind |-> "local_players", text |-> ""], calls |-> << >>]
    ELSE IF ss.run_analysis THEN
        IF filled_count(t) < required_count(rows) THEN
            [panel |-> [kind |-> "validation",
                        text |-> "Please fill all " \o ToString(required_count(rows))
                                 \o " player slots. Only " \o ToString(filled_count(t))
                                 \o " filled."],
             calls |-> << >>]
        ELSE
            LET analysis == generate_analysis(selected_formation, t, llm)
            IN  [panel |-> IF analysis = PyRaise THEN NoPanel
                           ELSE [kind |-> "analysis", text |-> Format(analysis)],
                 calls |-> << [prompt |-> Prompt(selected_formation, t),
                               outcome |-> llm, returned |-> analysis] >>]
    ELSE
        [panel |-> [kind |-> "info", text |-> ""], calls |-> << >>]

\* Widget values after a completed run: an input the run did not render is
\* dropped, so it reads "" when it is rendered again.
WidgetsKept(inp, slots) ==
    [s \in AllSlots |-> IF s \in Range(slots) THEN inp[s] ELSE ""]

----------------------------------------------------------------------------
(* One script run *)

Names == {"", "Messi"}

TypeOK ==
    /\ DictKeys(team) \subseteq AllSlots
    /\ run_analysis \in BOOLEAN
    /\ view_mode \in {"analysis", "local_players"}
    /\ formation_select \in DOMAIN FORMATIONS
    /\ input \in [AllSlots -> Names]
    /\ pending \in {"load", "none", "local", "video", "analyze"}
    /\ reached \in {"none", "top_rerun", "sidebar_rerun", "aborted", "complete"}

Init ==
    /\ team = << >>
    /\ run_analysis = FALSE
    /\ view_mode = "analysis"
    /\ formation_select = FormationOptions[1]
    /\ input = [s \in AllSlots |-> ""]
    /\ pending = "load"
    /\ event = "none"
    /\ reached = "none"
    /\ pitch = << >>
    /\ panel = NoPanel
    /\ llm_calls = << >>

\* how the portrait lookups of one run end, by name
Lookups == [Names \ {""} -> LookupOutcomes]

\* The run stops at st.rerun(): nothing is rendered, the next run is queued.
StopForRerun(ev, ss, t, how, button) ==
    /\ team' = t
    /\ run_analysis' = ss.run_analysis
    /\ view_mode' = ss.view_mode
    /\ pending' = button
    /\ event' = ev
    /\ reached' = how
    /\ pitch' = << >>
    /\ panel' = NoPanel
    /\ llm_calls' = << >>

\* The script run started by `ev`, with the button `btn` clicked ("none" when
\* no button was), the selectbox at `sel` and the text inputs at `inp`; each
\* portrait lookup and the text-generation call end in any of their outcomes.
\* (\E x \in {e} names the value of e.)
ScriptRun(ev, btn, sel, inp) ==
    \E ss0 \in {[view_mode |-> view_mode, run_analysis |-> run_analysis]},
       formation_rows \in {FORMATIONS[sel]} :
    \E slots \in {formation_slots(formation_rows)} :
    \E t \in {sidebar_inputs(team, slots, inp)} :
        /\ formation_select' = sel
        /\ CASE btn = "local" ->
                    input' = inp /\ StopForRerun(ev, btn_local(ss0), team, "top_rerun", btn)
             [] btn = "video" ->
                    input' = inp /\ StopForRerun(ev, btn_video(ss0), team, "top_rerun", btn)
             [] btn = "analyze" ->
                    input' = inp /\ StopForRerun(ev, analyze_button_sidebar(ss0, TRUE), t,
                                                 "sidebar_rerun", btn)
             [] OTHER ->
                    \E ss \in {analyze_button_sidebar(ss0, FALSE)},
                       positions \in {get_player_positions(sel)} :
                    \E markers \in {pitch_markers(slots, t, positions, lookup) : lookup \in Lookups} :
                    \E pitch_raised \in {\E i \in 1..Len(markers) : markers[i].img_url = PyRaise.type} :
                    \E right \in {IF pitch_raised
                                  THEN [panel |-> NoPanel, calls |-> << >>]
                                  ELSE analysis_col(ss, formation_rows, sel, t, llm) :
                                  llm \in LLMOutcomes} :
                    \E finished \in {right.panel # NoPanel} :
                        /\ input' = IF finished THEN WidgetsKept(inp, slots) ELSE inp
                        /\ team' = t
                        /\ run_analysis' = ss.run_analysis
                        /\ view_mode' = ss.view_mode
                        /\ pending' = "none"
                        /\ event' = ev
                        /\ reached' = IF finished THEN "complete" ELSE "aborted"
                        /\ pitch' = IF pitch_raised THEN << >> ELSE markers
                        /\ panel' = right.panel
                        /\ llm_calls' = right.calls

\* a run with no button clicked
Run(ev, sel, inp) == ScriptRun(ev, "none", sel, inp)

\* a run with a button clicked: it stops at the button's st.rerun()
Click(btn) == ScriptRun("click:" \o btn, btn, formation_select, input)

\* the first run of the session
PageLoad ==
    /\ pending = "load"
    /\ Run("load", formation_select, input)

\* the run queued by st.rerun()
Rerun ==
    /\ pending \in {"local", "video", "analyze"}
    /\ Run("rerun:" \o pending, formation_select, input)

\* The user fills the sidebar's fields from the top down and empties them from
\* the bottom up: a name is typed into slots[k] only under filled fields, and
\* slots[k] is emptied only above empty ones.
TypingOrder(inp, slots, k, name) ==
    IF name # ""
    THEN \A j \in 1..(k - 1) : inp[slots[j]] # ""
    ELSE \A j \in (k + 1)..Len(slots) : inp[slots[j]] = ""

\* the user changes the text of one slot of the selected formation
EditSlot ==
    /\ pending = "none"
    /\ \E slots \in {formation_slots(FORMATIONS[formation_select])} :
       \E k \in 1..Len(slots), name \in Names :
            /\ name # input[slots[k]]
            /\ TypingOrder(input, slots, k, name)
            /\ Run("edit", formation_select, [input EXCEPT ![slots[k]] = name])

\* the user picks another formation
SelectFormation ==
    /\ pending = "none"
    /\ \E k \in 1..Len(FormationOptions) :
         /\ FormationOptions[k] # formation_select
         /\ Run("formation", FormationOptions[k], input)

ClickLocalPlayers == pending = "none" /\ Click("local")

ClickVideoAnalysis == pending = "none" /\ Click("video")

ClickAnalyze == pending = "none" /\ Click("analyze")

Next ==
    \/ PageLoad
    \/ Rerun
    \/ EditSlot
    \/ SelectFormation
    \/ ClickLocalPlayers
    \/ ClickVideoAnalysis
    \/ ClickAnalyze

Spec == Init /\ [][Next]_vars

----------------------------------------------------------------------------
(* Properties *)

\* the slots of the selected formation
SelectedSlots == formation_slots(FORMATIONS[formation_select])

\* required: the sum of the selected formation's role-group counts
Required == required_count(FORMATIONS[formation_select])

\* filled: the number of roster entries with a non-empty value
Filled == Cardinality({i \in 1..Len(team) : team[i].name # ""})

\* the last run got past the sidebar with an analysis requested
AnalysisRequested ==
    reached \in {"complete", "aborted"} /\ view_mode = "analysis" /\ run_analysis

\* C1: generate_analysis is called only in a run where every slot of the
\* selected formation has a non-empty name in the roster.
C1_CompleteBeforeDispatch ==
    llm_calls # << >> =>
        \A s \in Range(SelectedSlots) : DictGet(team, s, "") # ""

\* C2: when analysis is requested and filled < required, the run shows the
\* validation message with exactly those two counts and calls the
\* text-generation service zero times.
C2_ValidationShortCircuit ==
    (AnalysisRequested /\ Filled < Required) =>
        /\ panel = [kind |-> "validation",
                    text |-> "Please fill all " \o ToString(Required)
                             \o " player slots. Only " \o ToString(Filled) \o " filled."]
        /\ llm_calls = << >>

\* C2 witness: 9 of 11 filled, the validation message shown
C2_Witness ==
    AnalysisRequested /\ Required = 11 /\ Filled = 9 /\ panel.kind = "validation"

\* the results that report a failed generation: the category, then the error
FailureResults ==
    {PyStr("ERROR: LLM Analysis failed: " \o o.etype \o ": " \o o.msg) : o \in LLMOutcomes}

\* C3: generate_analysis never raises; for every failure of the collaborator
\* (error raised, or no content in the response) it returns a failure result
\* naming the category and the error, and it returns the payload only when the
\* call succeeded with content present.
C3_FailureResultOrPayload ==
    \A i \in 1..Len(llm_calls) :
        LET c == llm_calls[i]
            succeeded == ~c.outcome.raised /\ c.outcome.content.type = "str"
        IN  /\ c.returned # PyRaise
            /\ succeeded => c.returned = c.outcome.content
            /\ ~succeeded => c.returned \in FailureResults

\* the vertical band of a role group
Band(role) ==
    CASE role = "GK" -> 15 [] role = "DEF" -> 30 [] role = "MID" -> 50 [] role = "ATT" -> 75

\* for every formation: the counts sum to 11, and get_player_positions has a
\* coordinate for exactly the formation's slots, in 0..100, GK1 at (15, 50) and
\* each role group on its band
LayoutComplete ==
    \A f \in DOMAIN FORMATIONS :
        LET rows == FORMATIONS[f]
            positions == get_player_positions(f)
        IN  /\ required_count(rows) = 11
            /\ DOMAIN positions = Range(formation_slots(rows))
            /\ positions["GK1"] = [top |-> 15, left |-> 50]
            /\ \A r \in 1..Len(rows) : \A i \in 0..(rows[r][2] - 1) :
                 LET c == positions[position_key(rows[r][1], i)]
                 IN  c.top = Band(rows[r][1]) /\ c.top \in 0..100 /\ c.left \in 0..100

\* C4: the layout is complete for every formation, and the pitch of the
\* selected formation has one marker per slot, each at the coordinate
\* get_player_positions gives it, never at the default coordinate.
C4_LayoutCoversSlots ==
    /\ LayoutComplete
    /\ reached = "complete" =>
        /\ Len(pitch) = Len(SelectedSlots)
        /\ \A i \in 1..Len(pitch) :
             /\ pitch[i].key = SelectedSlots[i]
             /\ ~pitch[i].default_position
             /\ pitch[i].top \in 0..100 /\ pitch[i].left \in 0..100
             /\ pitch[i].key = "GK1" => pitch[i].top = 15 /\ pitch[i].left = 50

\* C4 witness: the pitch of 3-4-3 rendered, ATT3 and MID4 on it
C4_Witness ==
    /\ reached = "complete" /\ formation_select = "3-4-3"
    /\ {"ATT3", "MID4"} \subseteq {pitch[i].key : i \in 1..Len(pitch)}

\* C5: no run is aborted in the pitch loop, and a completed run has one marker
\* per slot of the selected formation: the default image and no lookup for an
\* empty name, otherwise the lookup's thumbnail or the default image.
C5_PitchAlwaysRendered ==
    /\ reached # "aborted"
    /\ reached = "complete" =>
        /\ Len(pitch) = Len(SelectedSlots)
        /\ \A i \in 1..Len(pitch) :
             LET name == DictGet(team, SelectedSlots[i], "")
             IN  /\ pitch[i].key = SelectedSlots[i]
                 /\ name = "" => pitch[i].img_url = DEFAULT_IMAGE /\ ~pitch[i].lookup_called
                 /\ name # "" => /\ pitch[i].lookup_called
                                 /\ pitch[i].img_url \in {Thumbnail(name), DEFAULT_IMAGE}

\* C5 witness: a pitch with an unnamed slot and a named slot whose lookup failed
C5_Witness ==
    /\ reached = "complete"
    /\ \E i, j \in 1..Len(pitch) :
         /\ ~pitch[i].lookup_called
         /\ pitch[j].lookup_called /\ pitch[j].img_url = DEFAULT_IMAGE

\* C6: the roster section of every prompt sent has exactly one line per slot of
\* the selected formation, "{slot}: {name}" with the slot's non-empty name, and
\* nothing for the entries of other slots, which are not counted as filled.
C6_PromptIsSelectedRoster ==
    \A c \in 1..Len(llm_calls) :
        /\ Len(llm_calls[c].prompt.roster) = Required
        /\ Range(llm_calls[c].prompt.roster) =
                {s \o ": " \o DictGet(team, s, "") : s \in Range(SelectedSlots)}
        /\ \A s \in Range(SelectedSlots) : DictGet(team, s, "") # ""

\* C7: a run writes only the roster entries of the selected formation's slots,
\* each set to its input's value, and leaves every other entry as it was; no
\* key is ever removed.
C7_RosterNeverPurged ==
    [][ LET slots == Range(formation_slots(FORMATIONS[formation_select']))
        IN  /\ DictKeys(team) \subseteq DictKeys(team')
            /\ DictKeys(team') \subseteq DictKeys(team) \cup slots
            /\ \A s \in DictKeys(team) \ slots :
                 DictGet(team', s, "") = DictGet(team, s, "")
            /\ reached' = "top_rerun" => team' = team
            /\ reached' # "top_rerun" =>
                 \A s \in slots : s \in DictKeys(team') /\ DictGet(team', s, "") = input'[s]
      ]_vars

\* C7 witness: a slot dropped by a formation change still holds its name
C7_Witness ==
    \E s \in DictKeys(team) \ Range(SelectedSlots) :
        DictGet(team, s, "") # "" /\ input[s] = ""

\* C8: generate_analysis is called only in the run that directly follows a
\* click on Analyze Dream Team, and at most once in a run.
C8_CallOnlyOnRequest ==
    /\ Len(llm_calls) <= 1
    /\ llm_calls # << >> => event = "rerun:analyze"

\* C9: the run that follows a click on Analyze Dream Team completes and shows
\* the validation message or the text generate_analysis returned, an analysis
\* or an error string.
C9_RequestGetsOutcome ==
    event = "rerun:analyze" =>
        /\ reached = "complete"
        /\ \/ panel.kind = "validation" /\ llm_calls = << >>
           \/ /\ panel.kind = "analysis"
              /\ Len(llm_calls) = 1
              /\ llm_calls[1].returned.type = "str"
              /\ panel.text = llm_calls[1].returned.value

====
